---- MODULE Spec2Model ----
(***************************************************************************)
(* A model of the fixed-width codec: the option/layout validator           *)
(* (src/src/options.mjs and its bundled copy), the record codec            *)
(* (parseFields / stringifyFields), the incremental Parser (write / end)   *)
(* and the Stringifier of the bundle src/unnamed/part_000.                 *)
(*                                                                         *)
(* Text is a sequence of one-character strings.  A JavaScript value is a   *)
(* record [t, s, n]: its type tag, its characters when it is a string and  *)
(* its number when it is a number or a boolean.  The cast / stringify      *)
(* hooks of a field are always absent (null), and every chunk given to the *)
(* parser is a string (the StringDecoder branch is not taken).             *)
(***************************************************************************)
EXTENDS Integers, Sequences, FiniteSets, TLC

VARIABLES
  pc,          \* position of the harness that drives the code
  given,       \* the options object handed to parseOptions (fields included)
  opts,        \* this.options: what parseOptions returned (eol is patched by write)
  obj,         \* the record handed to stringifyFields
  encoded,     \* what stringifyFields returned or threw
  lineIn,      \* the line handed to parseFields
  decoded,     \* what parseFields returned or threw
  text,        \* Parser: this.text, the carry buffer
  line,        \* Parser: this.line
  totalLines,  \* Parser: this.totalLines
  chunks,      \* the chunks written in the current session, in order
  out,         \* what write()/end() yielded in the current session, in order
  session,     \* 1 + the number of end() calls run on the instance before this session
  input,       \* the text handed to parse(): its lines and its line terminator
  records,     \* what parse() returned or threw
  output       \* what stringify() returned or threw

vars == <<pc, given, opts, obj, encoded, lineIn, decoded, text, line, totalLines,
          chunks, out, session, input, records, output>>

-----------------------------------------------------------------------------
(* Bounds of the model.                                                    *)

MaxFields == 2      \* fields in a field list
MaxWidth == 2       \* width of a field of the layout validator's inputs
MaxCol == 5         \* explicit column of a field of the layout validator's inputs
MaxLen == 3         \* characters of a string value handed to stringifyFields
MaxLine == 5        \* characters of a line handed to parseFields
MaxText == 4        \* characters written to a Parser in one session
MaxSessions == 2    \* sessions (write ... end) run on one Parser instance
MaxLines == 2       \* lines of a text handed to parse()
MaxWrites == 3      \* write() calls of one Stringifier session

-----------------------------------------------------------------------------
(* Characters and JavaScript values.                                       *)

CR == "\r"
LF == "\n"
SP == " "

\* Number.POSITIVE_INFINITY: above every line number the model reaches.
POSITIVE_INFINITY == 1000000

Min(a, b) == IF a < b THEN a ELSE b
Max(a, b) == IF a > b THEN a ELSE b

RECURSIVE SeqsUpTo(_, _)
\* every sequence over S of length 0..n
SeqsUpTo(S, n) ==
  IF n = 0 THEN {<<>>}
  ELSE LET shorter == SeqsUpTo(S, n - 1)
       IN shorter \cup {Append(s, c) : s \in {t \in shorter : Len(t) = n - 1}, c \in S}

\* String.prototype.substring(start, end) on a sequence of characters (0-based, end exclusive)
substring(s, start, end) ==
  LET a == Min(Max(start, 0), Len(s))
      b == Min(Max(end, 0), Len(s))
  IN SubSeq(s, Min(a, b) + 1, Max(a, b))

RECURSIVE Repeat(_, _)
Repeat(c, n) == IF n <= 0 THEN <<>> ELSE <<c>> \o Repeat(c, n - 1)

\* String.prototype.padEnd / padStart with a one-character pad
padEnd(s, width, pad) == s \o Repeat(pad[1], width - Len(s))
padStart(s, width, pad) == Repeat(pad[1], width - Len(s)) \o s

Str(s) == [t |-> "string", s |-> s, n |-> 0]
Num(n) == [t |-> "number", s |-> <<>>, n |-> n]
Bool(b) == [t |-> "boolean", s |-> <<>>, n |-> IF b THEN 1 ELSE 0]
Null == [t |-> "null", s |-> <<>>, n |-> 0]
Undefined == [t |-> "undefined", s |-> <<>>, n |-> 0]
\* an object whose valueOf() is itself (a plain object, an array): never a string
Obj == [t |-> "object", s |-> <<>>, n |-> 0]

-----------------------------------------------------------------------------
(* Layout validation: parseOptions and its helpers.                        *)

Fail(msg) == [ok |-> FALSE, error |-> msg]

\* what is held where the code has returned or thrown nothing yet
None == [ok |-> FALSE, error |-> "none"]

isPositiveInteger(value) == value > 0

isPropertyKey(value) == value # ""

\* value: "undefined", "true", "false", "auto", "left", "right" or anything else
parseTrimOption(value, defaultValue) ==
  CASE value = "undefined" -> [ok |-> TRUE, error |-> "", value |-> defaultValue]
    [] value \in {"true", "false", "auto", "left", "right"} ->
         [ok |-> TRUE, error |-> "", value |-> value]
    [] OTHER -> Fail("Invalid trim option")

\* field: [width, column (0: not given), pad (<<>>: not given), align, trim, property ("": not given)]
parseField_1(field, index, defaultColumn, defaultPad, defaultTrim) ==
  LET column == IF field.column # 0 THEN field.column ELSE defaultColumn
      pad == IF field.pad # <<>> THEN field.pad ELSE defaultPad
      trim == parseTrimOption(field.trim, defaultTrim)
  IN IF ~isPositiveInteger(field.width) THEN Fail("Field width must be a positive integer")
     ELSE IF ~isPositiveInteger(column) THEN Fail("Field column must be a positive integer")
     ELSE IF Len(pad) # 1 THEN Fail("Padding value (pad) must be a single char")
     ELSE IF ~trim.ok THEN trim
     ELSE [ok |-> TRUE, error |-> "",
           field |-> [align |-> IF field.align = "right" THEN "right" ELSE "left",
                      column |-> column,
                      pad |-> pad,
                      keyed |-> isPropertyKey(field.property),
                      property |-> field.property,
                      index |-> index,
                      trim |-> trim.value,
                      width |-> field.width]]

RECURSIVE parseFieldsLoopAfterPrevious(_, _, _, _, _, _)
\* parseFieldsLoop with the default column restarted after the previous field's column
parseFieldsLoopAfterPrevious(items, i, column, fields, pad, trim) ==
  IF i > Len(items) THEN [ok |-> TRUE, error |-> "", fields |-> fields]
  ELSE LET r == parseField_1(items[i], i - 1, column, pad, trim)
       IN IF ~r.ok THEN r
          ELSE parseFieldsLoopAfterPrevious(items, i + 1, r.field.column + r.field.width,
                                            Append(fields, r.field), pad, trim)

RECURSIVE parseFieldsLoop(_, _, _, _, _, _)
\* the for loop of parseFields: i is 1-based here, the field's index is i - 1
parseFieldsLoop(items, i, column, fields, pad, trim) ==
  IF i > Len(items) THEN [ok |-> TRUE, error |-> "", fields |-> fields]
  ELSE LET r == parseField_1(items[i], i - 1, column, pad, trim)
       IN IF ~r.ok THEN r
          ELSE parseFieldsLoop(items, i + 1, column + r.field.width,
                               Append(fields, r.field), pad, trim)

parseFields_1(items, pad, trim) == parseFieldsLoop(items, 1, 1, <<>>, pad, trim)

RECURSIVE reduceMinColumn(_, _, _)
\* usable.reduce((a, b) => a.column > b.column ? b : a)
reduceMinColumn(usable, i, a) ==
  IF i > Len(usable) THEN a
  ELSE reduceMinColumn(usable, i + 1, IF a.column > usable[i].column THEN usable[i] ELSE a)

\* getNextField taking only a field that starts exactly at the column
getNextFieldEq(fields, column) ==
  LET usable == SelectSeq(fields, LAMBDA item : item.column = column)
  IN IF Len(usable) > 0 THEN <<reduceMinColumn(usable, 2, usable[1])>> ELSE <<>>

\* <<the field>>, or <<>> for undefined
getNextField(fields, column) ==
  LET usable == SelectSeq(fields, LAMBDA item : item.column >= column)
  IN IF Len(usable) > 0 THEN <<reduceMinColumn(usable, 2, usable[1])>> ELSE <<>>

RECURSIVE getWidthLoop(_, _, _)
\* the while loop of getWidth
getWidthLoop(fields, column, count) ==
  LET field == getNextField(fields, column)
  IN IF field # <<>>
     THEN getWidthLoop(fields, field[1].column + field[1].width, count + 1)
     ELSE [column |-> column, count |-> count]

\* getWidth without its count < fields.length test
getWidthNoCount(fields) ==
  LET w == getWidthLoop(fields, 1, 0)
  IN IF w.count <= 0 THEN Fail("At least one field is required")
     ELSE [ok |-> TRUE, error |-> "", width |-> w.column - 1]

getWidth(fields) ==
  LET w == getWidthLoop(fields, 1, 0)
  IN IF w.count <= 0 THEN Fail("At least one field is required")
     ELSE IF w.count < Len(fields) THEN Fail("Some fields are overlapping")
     ELSE [ok |-> TRUE, error |-> "", width |-> w.column - 1]

RECURSIVE countProperties(_, _)
\* fields.reduce((acc, field) => acc + (typeof field.property === 'number' ? 0 : 1), 0)
countProperties(fields, i) ==
  IF i > Len(fields) THEN 0
  ELSE (IF fields[i].keyed THEN 1 ELSE 0) + countProperties(fields, i + 1)

\* "undefined", "true" or "false" read as in (x !== false) and (x === true)
NotFalse(x) == x # "false"
IsTrue(x) == x = "true"

\* options: [fields, pad, eol, from, to, trim, relax, allowLongerLines,
\*           allowShorterLines, skipEmptyLines, eof]; from / to 0: not given.
\* rangeCheck: the module checks to < from (options.mjs); the bundle does not.
parseOptionsBody(options, rangeCheck) ==
  LET pad == IF options.pad # <<>> THEN options.pad ELSE <<SP>>
      eol == options.eol
      from == IF options.from # 0 THEN options.from ELSE 1
      to == IF options.to # 0 THEN options.to ELSE POSITIVE_INFINITY
      trim == IF options.trim \in {"auto", "left", "right"} THEN options.trim
              ELSE IF options.trim # "false" THEN "true" ELSE "false"
      fields == parseFields_1(options.fields, pad, trim)
      width == getWidth(fields.fields)
      properties == countProperties(fields.fields, 1)
  IN IF Len(pad) # 1 THEN Fail("Padding value (pad) must be a single char")
     ELSE IF rangeCheck /\ to < from
       THEN Fail("Ending line (to) must be greater or equal to the starting line (from)")
     ELSE IF ~fields.ok THEN fields
     ELSE IF ~width.ok THEN width
     ELSE IF properties > 0 /\ properties < Len(fields.fields)
       THEN Fail("Target property must be specifier by all fields")
     ELSE [ok |-> TRUE, error |-> "",
           allowLongerLines |-> IF options.relax # "undefined" THEN IsTrue(options.relax)
                                ELSE NotFalse(options.allowLongerLines),
           allowShorterLines |-> IF options.relax # "undefined" THEN IsTrue(options.relax)
                                 ELSE IsTrue(options.allowShorterLines),
           eof |-> NotFalse(options.eof),
           eol |-> eol,
           fields |-> fields.fields,
           from |-> from,
           output |-> IF properties > 0 THEN "object" ELSE "array",
           pad |-> pad,
           skipEmptyLines |-> NotFalse(options.skipEmptyLines),
           to |-> to,
           trim |-> trim,
           width |-> width.width]

\* parseOptions of src/src/options.mjs
parseOptions(options) == parseOptionsBody(options, TRUE)

\* parseOptions of the bundle, used by Parser and Stringifier
parseOptionsBundle(options) == parseOptionsBody(options, FALSE)

-----------------------------------------------------------------------------
(* Record codec, decode direction: parseFields and trimString.             *)

RECURSIVE trimStart(_, _)
\* while (value[index] === pad) index++
trimStart(value, pad) ==
  IF value # <<>> /\ <<value[1]>> = pad THEN trimStart(Tail(value), pad) ELSE value

\* trimEnd stopping one character early
trimEndKeepOne(value, pad) ==
  IF value # <<>> /\ <<value[Len(value)]>> = pad
  THEN SubSeq(value, 1, Len(value) - 1) ELSE value

RECURSIVE trimEnd(_, _)
\* while (value[index] === pad) index--
trimEnd(value, pad) ==
  IF value # <<>> /\ <<value[Len(value)]>> = pad
  THEN trimEnd(SubSeq(value, 1, Len(value) - 1), pad) ELSE value

trim(value, pad) == trimEnd(trimStart(value, pad), pad)

trimString(value, pad, mode, align) ==
  CASE mode = "false" -> value
    [] mode = "left" -> trimStart(value, pad)
    [] mode = "right" -> trimEnd(value, pad)
    [] mode = "auto" -> IF align = "right" THEN trimStart(value, pad) ELSE trimEnd(value, pad)
    [] OTHER -> trim(value, pad)

\* field.cast is null: the trimmed slice is the value
parseField(text_, field, options, line_) ==
  LET index == field.column - 1
  IN Str(trimString(substring(text_, index, index + field.width),
                    field.pad, field.trim, field.align))

\* set(obj, key, value): obj[key] = value
set(o, key, value) ==
  [k \in (DOMAIN o) \cup {key} |-> IF k = key THEN value ELSE o[k]]

RECURSIVE reduceSet(_, _, _, _, _)
\* options.fields.reduce((acc, field) => set(acc, field.property, parseField(...)), {})
reduceSet(text_, options, line_, i, acc) ==
  IF i > Len(options.fields) THEN acc
  ELSE reduceSet(text_, options, line_, i + 1,
                 set(acc, options.fields[i].property,
                     parseField(text_, options.fields[i], options, line_)))

UnexpectedLineLength(line_, value) ==
  [ok |-> FALSE, error |-> "UNEXPECTED_LINE_LENGTH", line |-> line_, value |-> value]

\* parseFields without the two length tests
parseFieldsNoLengthTest(text_, options, line_) ==
  [ok |-> TRUE, error |-> "",
   record |-> [i \in 1..Len(options.fields) |->
                 parseField(text_, options.fields[i], options, line_)]]

parseFields(text_, options, line_) ==
  IF Len(text_) > options.width /\ ~options.allowLongerLines
    THEN UnexpectedLineLength(line_, text_)
  ELSE IF Len(text_) < options.width /\ ~options.allowShorterLines
    THEN UnexpectedLineLength(line_, text_)
  ELSE IF options.output = "object"
    THEN [ok |-> TRUE, error |-> "", record |-> reduceSet(text_, options, line_, 1, <<>>)]
  ELSE [ok |-> TRUE, error |-> "",
        record |-> [i \in 1..Len(options.fields) |->
                      parseField(text_, options.fields[i], options, line_)]]

-----------------------------------------------------------------------------
(* Record codec, encode direction: stringifyFields.                        *)

Digit(d) == <<"0", "1", "2", "3", "4", "5", "6", "7", "8", "9">>[d + 1]

RECURSIVE toString10(_)
\* Number.prototype.toString(10) of an integer
toString10(n) ==
  IF n < 0 THEN <<"-">> \o toString10(0 - n)
  ELSE IF n < 10 THEN <<Digit(n)>>
  ELSE toString10(n \div 10) \o <<Digit(n % 10)>>

stringifyPrimitiveValue(value) ==
  CASE value.t \in {"undefined", "null"} -> Str(<<>>)
    [] value.t = "boolean" -> IF value.n = 1 THEN Str(<<"1">>) ELSE Str(<<"0">>)
    [] value.t = "number" -> Str(toString10(value.n))
    [] OTHER -> value

\* no value is a Buffer; valueOf() of an object of the model is the object
stringifyValue(value, encoding) == stringifyPrimitiveValue(value)

\* obj[field.property], undefined when the property is absent
Get(o, field) ==
  LET key == IF field.keyed THEN field.property ELSE field.index + 1
  IN IF key \in DOMAIN o THEN o[key] ELSE Undefined

FieldError(code, line_, field, value) ==
  [ok |-> FALSE, error |-> code, line |-> line_, column |-> field.column,
   width |-> field.width, value |-> value]

\* stringifyField cutting the value to the field's width instead of throwing
stringifyFieldTruncating(o, field, options, line_) ==
  LET value == stringifyValue(Get(o, field), "utf8")
  IN IF value.t # "string" THEN FieldError("EXPECTED_STRING_VALUE", line_, field, value)
     ELSE [ok |-> TRUE, error |-> "",
           text |-> IF field.align = "right"
                    THEN padStart(substring(value.s, 0, field.width), field.width, field.pad)
                    ELSE padEnd(substring(value.s, 0, field.width), field.width, field.pad)]

\* field.stringify is null
stringifyField(o, field, options, line_) ==
  LET value == stringifyValue(Get(o, field), "utf8")
  IN IF value.t # "string" THEN FieldError("EXPECTED_STRING_VALUE", line_, field, value)
     ELSE IF Len(value.s) > field.width
       THEN FieldError("FIELD_VALUE_OVERFLOW", line_, field, value)
     ELSE [ok |-> TRUE, error |-> "",
           text |-> IF field.align = "right" THEN padStart(value.s, field.width, field.pad)
                    ELSE padEnd(value.s, field.width, field.pad)]

replaceWith(text_, value, index) ==
  substring(text_, 0, index) \o value \o substring(text_, index + Len(value), Len(text_))

RECURSIVE stringifyFieldsLoop(_, _, _, _, _)
\* for (const field of options.fields) text = replaceWith(text, stringifyField(...), column - 1)
stringifyFieldsLoop(o, options, line_, i, text_) ==
  IF i > Len(options.fields) THEN [ok |-> TRUE, error |-> "", text |-> text_]
  ELSE LET field == options.fields[i]
           r == stringifyField(o, field, options, line_)
       IN IF ~r.ok THEN r
          ELSE stringifyFieldsLoop(o, options, line_, i + 1,
                                   replaceWith(text_, r.text, field.column - 1))

stringifyFields(o, options, line_) ==
  stringifyFieldsLoop(o, options, line_, 1, padEnd(<<>>, options.width, options.pad))

-----------------------------------------------------------------------------
(* Parser: guessEndOfLine, write and end.                                  *)

\* the 1-based position of the first occurrence of sep in s at or after position i, 0 if none
RECURSIVE IndexOf(_, _, _)
IndexOf(s, sep, i) ==
  IF i + Len(sep) - 1 > Len(s) THEN 0
  ELSE IF SubSeq(s, i, i + Len(sep) - 1) = sep THEN i
  ELSE IndexOf(s, sep, i + 1)

RECURSIVE split(_, _)
\* String.prototype.split with a non-empty string separator
split(s, sep) ==
  LET i == IndexOf(s, sep, 1)
  IN IF i = 0 THEN <<s>>
     ELSE <<SubSeq(s, 1, i - 1)>> \o split(SubSeq(s, i + Len(sep), Len(s)), sep)

\* the end of line guessed from the text, <<>> for undefined
guessEndOfLine(text_) ==
  IF IndexOf(text_, <<CR, LF>>, 1) # 0 THEN <<CR, LF>>
  ELSE LET cr == IndexOf(text_, <<CR>>, 1)
           lf == IndexOf(text_, <<LF>>, 1)
           \* result.index of text.match(/[\r\n]{1,2}/), 1-based, 0 for no match
           index == IF cr = 0 THEN lf ELSE IF lf = 0 THEN cr ELSE Min(cr, lf)
       IN IF index = 0 THEN <<>>
          ELSE IF text_[index] = LF THEN <<LF>>
          ELSE IF Len(text_) > index THEN <<CR>>
          ELSE <<>>

\* the four range tests of write and end
outOfRange(options, line_, totalLines_) ==
  \/ options.from > 0 /\ line_ < options.from
  \/ options.from < 0 /\ line_ < totalLines_ + 1 + options.from
  \/ options.to > 0 /\ line_ > options.to
  \/ options.to < 0 /\ line_ > totalLines_ + 1 + options.to

RECURSIVE writeLoop(_, _, _, _, _, _)
\* for (const chunk of chunks): [line, yielded, threw] when the generator is exhausted
writeLoop(options, lines, i, line_, totalLines_, yielded) ==
  IF i > Len(lines) THEN [line |-> line_, yielded |-> yielded, threw |-> FALSE]
  ELSE IF outOfRange(options, line_, totalLines_)
    THEN writeLoop(options, lines, i + 1, line_ + 1, totalLines_, yielded)
  ELSE IF Len(lines[i]) > 0 \/ ~options.skipEmptyLines
    THEN LET r == parseFields(lines[i], options, line_)
         IN IF r.ok
            THEN writeLoop(options, lines, i + 1, line_ + 1, totalLines_, Append(yielded, r))
            ELSE [line |-> line_ + 1, yielded |-> Append(yielded, r), threw |-> TRUE]
  ELSE writeLoop(options, lines, i + 1, line_, totalLines_, yielded)

\* the state of a Parser instance
Parser(options) == [options |-> options, text |-> <<>>, line |-> 1, totalLines |-> 0]

\* Parser.write of a string, the generator run until it is exhausted or throws:
\* [state, yielded, threw]; a parseFields failure is the last element of yielded
write(p, input_) ==
  LET text1 == p.text \o input_
      guess == guessEndOfLine(text1)
      eol == IF p.options.eol = <<>> /\ guess # <<>> THEN guess ELSE p.options.eol
      options == [p.options EXCEPT !.eol = eol]
  IN IF eol = <<>>
     THEN [state |-> [p EXCEPT !.text = text1], yielded |-> <<>>, threw |-> FALSE]
     ELSE LET parts == split(text1, eol)
              lines == SubSeq(parts, 1, Len(parts) - 1)
              text2 == parts[Len(parts)]
              total == Len(lines) + (IF Len(text2) > 0 THEN 1 ELSE 0)
              r == writeLoop(options, lines, 1, p.line, total, <<>>)
          IN [state |-> [options |-> options, text |-> text2, line |-> r.line,
                         totalLines |-> total],
              yielded |-> r.yielded, threw |-> r.threw]

\* Parser.end, the generator run until it is exhausted or throws: when parseFields
\* throws, the reset below the yield is not reached
end(p) ==
  IF Len(p.text) > 0 /\ ~outOfRange(p.options, p.line, p.totalLines)
  THEN LET r == parseFields(p.text, p.options, p.line)
       IN IF r.ok
          THEN [state |-> [p EXCEPT !.text = <<>>, !.line = 1, !.totalLines = 0],
                yielded |-> <<r>>, threw |-> FALSE]
          ELSE [state |-> [p EXCEPT !.line = p.line + 1], yielded |-> <<r>>, threw |-> TRUE]
  ELSE [state |-> [p EXCEPT !.text = <<>>, !.line = 1, !.totalLines = 0],
        yielded |-> <<>>, threw |-> FALSE]

-----------------------------------------------------------------------------
(* parse() of a string, Stringifier and stringify() of an array.           *)

RECURSIVE RecordsOf(_)
RecordsOf(yielded) ==
  IF yielded = <<>> THEN <<>> ELSE <<yielded[1].record>> \o RecordsOf(Tail(yielded))

\* Array.from(parser.write(input)).concat(Array.from(parser.end())) on a new Parser:
\* the records, or what parseFields threw
parse(input_, options) ==
  LET w == write(Parser(parseOptionsBundle(options)), input_)
      e == end(w.state)
  IN IF w.threw THEN w.yielded[Len(w.yielded)]
     ELSE IF e.threw THEN e.yielded[Len(e.yielded)]
     ELSE [ok |-> TRUE, error |-> "", records |-> RecordsOf(w.yielded \o e.yielded)]

\* os.EOL of the host
EOL == <<LF>>

\* the state of a Stringifier instance
Stringifier(options) ==
  LET o == parseOptionsBundle(options)
  IN [options |-> IF o.eol = <<>> THEN [o EXCEPT !.eol = EOL] ELSE o, line |-> 1]

\* Stringifier.write prepending the separator also to the first line
StringifierWriteAlwaysLeading(st, o) ==
  LET r == stringifyFields(o, st.options, st.line)
      next == [st EXCEPT !.line = st.line + 1]
  IN IF ~r.ok THEN [state |-> next, ok |-> FALSE, text |-> <<>>, thrown |-> r]
     ELSE [state |-> next, ok |-> TRUE, thrown |-> None,
           text |-> st.options.eol \o r.text
                      \o (IF st.options.eof THEN st.options.eol ELSE <<>>)]

\* Stringifier.write: [state, ok, text, thrown]; this.line++ is evaluated before
\* stringifyFields is called
StringifierWrite(st, o) ==
  LET r == stringifyFields(o, st.options, st.line)
      next == [st EXCEPT !.line = st.line + 1]
  IN IF ~r.ok THEN [state |-> next, ok |-> FALSE, text |-> <<>>, thrown |-> r]
     ELSE [state |-> next, ok |-> TRUE, thrown |-> None,
           text |-> (IF ~st.options.eof /\ st.line > 1 THEN st.options.eol ELSE <<>>)
                      \o r.text
                      \o (IF st.options.eof THEN st.options.eol ELSE <<>>)]

\* Stringifier.end: [state, text]
StringifierEnd(st) == [state |-> [st EXCEPT !.line = 1], text |-> <<>>]

RECURSIVE stringifyIterable(_, _, _, _)
\* the texts yielded for the records, joined; the tail of end() is empty and not yielded
stringifyIterable(rs, i, st, joined) ==
  IF i > Len(rs) THEN [ok |-> TRUE, error |-> "", text |-> joined \o StringifierEnd(st).text]
  ELSE LET w == StringifierWrite(st, rs[i])
       IN IF ~w.ok THEN w.thrown
          ELSE stringifyIterable(rs, i + 1, w.state, joined \o w.text)

\* stringify of an array: Array.from(stringifyIterable(input, stringifier)).join('')
stringify(input_, options) == stringifyIterable(input_, 1, Stringifier(options), <<>>)

-----------------------------------------------------------------------------
(* Inputs.                                                                 *)

Item(width, column, align, property) ==
  [width |-> width, column |-> column, pad |-> <<>>, align |-> align,
   trim |-> "undefined", property |-> property]

Options(fields) ==
  [fields |-> fields, pad |-> <<>>, eol |-> <<>>, from |-> 0, to |-> 0,
   trim |-> "undefined", relax |-> "undefined", allowLongerLines |-> "undefined",
   allowShorterLines |-> "undefined", skipEmptyLines |-> "undefined", eof |-> "undefined"]

NoInput == [lines |-> <<>>, eol |-> <<>>, configured |-> FALSE]

ValidatorItems ==
  {Item(w, c, "left", p) : w \in 0..MaxWidth, c \in 0..MaxCol, p \in {"", "a"}}

\* the fields of the codec's layouts: one or two positional fields
CodecItems ==
  {Item(w, c, a, "") : w \in {1, 2, 3}, c \in {0, 1, 2, 3, 4}, a \in {"left", "right"}}

CodecFieldLists ==
  {<<f>> : f \in CodecItems} \cup {<<f, g>> : f, g \in CodecItems}

\* the length flags of the codec's layouts: relax alone, or the two allow flags
LengthFlags ==
  {<<r, "undefined", "undefined">> : r \in {"true", "false"}}
    \cup {<<"undefined", l, s_>> : l \in {"undefined", "false"}, s_ \in {"undefined", "true"}}

\* the default pad, or the letter of the values as pad
CodecOptions ==
  {[Options(f) EXCEPT !.relax = x[1], !.allowLongerLines = x[2],
                      !.allowShorterLines = x[3], !.pad = p] :
     f \in CodecFieldLists, x \in LengthFlags, p \in {<<>>, <<"a">>}}

\* the characters of values and lines: a letter and the space
CodecChars == {"a", SP}

Values ==
  {Str(s_) : s_ \in SeqsUpTo(CodecChars, MaxLen)}
    \cup {Num(123), Bool(TRUE), Null, Obj}

\* the positional records for a layout of n fields
Objects(n) == [1..n -> Values]

Lines == SeqsUpTo(CodecChars, MaxLine)

\* the keyed fields of the layouts of parse() and stringify()
TextItems ==
  {Item(w, c, "left", p) : w \in {1, 2}, c \in {0, 3}, p \in {"a", "b"}}

\* one field, or two with the same key or different keys
TextFieldLists ==
  {<<f>> : f \in {i \in TextItems : i.property = "a"}}
    \cup {<<f, g>> : f \in {i \in TextItems : i.property = "a"}, g \in TextItems}

\* eol is left to be detected, or set when the harness knows the text's terminator
TextOptions == {Options(f) : f \in TextFieldLists}

\* the terminator of a text, and whether it is handed to parse() as eol
Terminators ==
  {[eol |-> <<LF>>, configured |-> FALSE], [eol |-> <<LF>>, configured |-> TRUE],
   [eol |-> <<CR, LF>>, configured |-> FALSE], [eol |-> <<CR>>, configured |-> FALSE]}

\* the columns of the layout's fields
FieldColumns(options) ==
  UNION {options.fields[i].column..(options.fields[i].column + options.fields[i].width - 1) :
           i \in 1..Len(options.fields)}

\* the lines of exactly options.width characters with a letter in every column of
\* a field, and a letter or the default pad in the other columns
TextLines(options) ==
  {l \in [1..options.width -> {"a", "b", SP}] :
     \A c \in 1..options.width :
       IF c \in FieldColumns(options) THEN l[c] # SP ELSE l[c] # "b"}

\* the characters of the text written to a Parser: a letter and the two line breaks
ParserChars == {"a", CR, LF}

Chunks == SeqsUpTo(ParserChars, MaxText) \ {<<>>}

EndOfLines == {<<>>, <<LF>>, <<CR, LF>>, <<CR>>}

\* the Parser's configurations with the default line range: one field of width 2
ParserOptions ==
  {[Options(<<Item(2, 0, "left", "")>>) EXCEPT !.eol = e, !.skipEmptyLines = k,
                                               !.relax = r] :
     e \in EndOfLines, k \in {"undefined", "false"}, r \in {"undefined", "true"}}

\* the Parser's configurations with from / to given or not (0), lines of any length accepted
RangeOptions ==
  {[Options(<<Item(2, 0, "left", "")>>) EXCEPT !.eol = e, !.skipEmptyLines = k,
                                               !.relax = "true", !.from = f, !.to = t] :
     e \in {<<LF>>}, k \in {"undefined", "false"},
     f \in {0, 2, -1, -2}, t \in {0, 1, 2, -1}}

-----------------------------------------------------------------------------
(* The layout validator under every field list of the bounds.              *)

Idle(p) ==
  /\ pc = p
  /\ obj = <<>> /\ encoded = None /\ lineIn = <<>> /\ decoded = None
  /\ text = <<>> /\ line = 1 /\ totalLines = 0
  /\ chunks = <<>> /\ out = <<>> /\ session = 1
  /\ input = NoInput /\ records = None /\ output = None

InitOptions ==
  /\ given \in {Options(f) : f \in SeqsUpTo(ValidatorItems, MaxFields)}
  /\ opts = None
  /\ Idle("options")

ParseOptions ==
  /\ pc = "options"
  /\ opts' = parseOptions(given)
  /\ pc' = "parsed"
  /\ UNCHANGED <<given, obj, encoded, lineIn, decoded, text, line, totalLines,
                 chunks, out, session, input, records, output>>

NextOptions == ParseOptions

SpecOptions == InitOptions /\ [][NextOptions]_vars

-----------------------------------------------------------------------------
(* The record codec under every accepted layout of CodecOptions: one       *)
(* stringifyFields call followed by parseFields of its line, or one        *)
(* parseFields call on a line of the bounds.                               *)

DefaultLengthFlags(options) ==
  /\ options.relax = "undefined"
  /\ options.allowLongerLines = "undefined"
  /\ options.allowShorterLines = "undefined"

InitCodec ==
  /\ given \in {o \in CodecOptions : parseOptions(o).ok}
  /\ opts = parseOptions(given)
  /\ Idle("codec")

\* stringifyFields never reads the length flags: it is run under the default ones
Stringify ==
  /\ pc = "codec"
  /\ DefaultLengthFlags(given)
  /\ \E o \in Objects(Len(opts.fields)) :
       /\ obj' = o
       /\ encoded' = stringifyFields(o, opts, 1)
  /\ pc' = "encoded"
  /\ UNCHANGED <<given, opts, lineIn, decoded, text, line, totalLines,
                 chunks, out, session, input, records, output>>

ParseEncoded ==
  /\ pc = "encoded"
  /\ encoded.ok
  /\ lineIn' = encoded.text
  /\ decoded' = parseFields(encoded.text, opts, 1)
  /\ pc' = "roundtrip"
  /\ UNCHANGED <<given, opts, obj, encoded, text, line, totalLines,
                 chunks, out, session, input, records, output>>

Parse ==
  /\ pc = "codec"
  /\ \E l \in Lines :
       /\ lineIn' = l
       /\ decoded' = parseFields(l, opts, 1)
  /\ pc' = "decoded"
  /\ UNCHANGED <<given, opts, obj, encoded, text, line, totalLines,
                 chunks, out, session, input, records, output>>

NextCodec == Stringify \/ ParseEncoded \/ Parse

SpecCodec == InitCodec /\ [][NextCodec]_vars

-----------------------------------------------------------------------------
(* One Parser instance driven through sessions of write() calls closed by  *)
(* end().  Every generator is run until it is exhausted or throws; what it *)
(* yielded, a failure of parseFields included, is appended to out.         *)

RECURSIVE Concat(_)
Concat(ss) == IF ss = <<>> THEN <<>> ELSE ss[1] \o Concat(Tail(ss))

\* the Parser instance of the state
This == [options |-> opts, text |-> text, line |-> line, totalLines |-> totalLines]

InitParser(configurations) ==
  /\ given \in configurations
  /\ opts = parseOptionsBundle(given)
  /\ pc = "parser"
  /\ obj = <<>> /\ encoded = None /\ lineIn = <<>> /\ decoded = None
  /\ text = <<>> /\ line = 1 /\ totalLines = 0
  /\ chunks = <<>> /\ out = <<>> /\ session = 1
  /\ input = NoInput /\ records = None /\ output = None

Init == InitParser(ParserOptions)

InitRange == InitParser(RangeOptions)

\* parser.write(c) in the running session
Write ==
  /\ pc = "parser"
  /\ \E c \in Chunks :
       /\ Len(Concat(chunks)) + Len(c) <= MaxText
       /\ LET w == write(This, c)
          IN /\ opts' = w.state.options
             /\ text' = w.state.text
             /\ line' = w.state.line
             /\ totalLines' = w.state.totalLines
             /\ out' = out \o w.yielded
       /\ chunks' = Append(chunks, c)
  /\ UNCHANGED <<pc, given, obj, encoded, lineIn, decoded, session, input, records, output>>

\* the caller turns to the next stream with the same instance
NextSession ==
  /\ pc = "ended"
  /\ session < MaxSessions
  /\ session' = session + 1
  /\ chunks' = <<>>
  /\ out' = <<>>
  /\ pc' = "parser"
  /\ UNCHANGED <<given, opts, obj, encoded, lineIn, decoded, text, line, totalLines,
                 input, records, output>>

\* parser.end(): the session is over, or the instance is given up when end() throws
End ==
  /\ pc = "parser"
  /\ LET e == end(This)
     IN /\ opts' = e.state.options
        /\ text' = e.state.text
        /\ line' = e.state.line
        /\ totalLines' = e.state.totalLines
        /\ out' = out \o e.yielded
        /\ pc' = IF e.threw THEN "failed" ELSE "ended"
  /\ UNCHANGED <<given, obj, encoded, lineIn, decoded, chunks, session, input, records, output>>

Next == Write \/ End \/ NextSession

Spec == Init /\ [][Next]_vars

SpecRange == InitRange /\ [][Next]_vars

-----------------------------------------------------------------------------
(* parse() of a whole text followed by stringify() of its records, under   *)
(* every accepted keyed layout of TextOptions.                             *)

RECURSIVE JoinLines(_, _)
\* every line followed by the terminator
JoinLines(ls, eol) == IF ls = <<>> THEN <<>> ELSE ls[1] \o eol \o JoinLines(Tail(ls), eol)

InitText ==
  /\ given \in {o \in TextOptions : parseOptions(o).ok}
  /\ opts = parseOptions(given)
  /\ input \in {[lines |-> ls, eol |-> t.eol, configured |-> t.configured] :
                  ls \in SeqsUpTo(TextLines(parseOptions(given)), MaxLines) \ {<<>>},
                  t \in Terminators}
  /\ pc = "text"
  /\ obj = <<>> /\ encoded = None /\ lineIn = <<>> /\ decoded = None
  /\ text = <<>> /\ line = 1 /\ totalLines = 0
  /\ chunks = <<>> /\ out = <<>> /\ session = 1
  /\ records = None /\ output = None

\* the options handed to parse(): eol as given by the caller or left to be detected
ParseOptionsOf(in) == IF in.configured THEN [given EXCEPT !.eol = in.eol] ELSE given

\* parse(text, options)
ParseText ==
  /\ pc = "text"
  /\ records' = parse(JoinLines(input.lines, input.eol), ParseOptionsOf(input))
  /\ pc' = "parsed"
  /\ UNCHANGED <<given, opts, obj, encoded, lineIn, decoded, text, line, totalLines,
                 chunks, out, session, input, output>>

\* stringify(records, options) with the terminator of the text as eol
StringifyRecords ==
  /\ pc = "parsed"
  /\ records.ok
  /\ output' = stringify(records.records, [given EXCEPT !.eol = input.eol])
  /\ pc' = "stringified"
  /\ UNCHANGED <<given, opts, obj, encoded, lineIn, decoded, text, line, totalLines,
                 chunks, out, session, input, records>>

NextText == ParseText \/ StringifyRecords

SpecText == InitText /\ [][NextText]_vars

-----------------------------------------------------------------------------
(* Properties of the layout validator.                                     *)

RECURSIVE InsertByColumn(_, _)
InsertByColumn(sorted, f) ==
  IF sorted = <<>> THEN <<f>>
  ELSE IF f.column < sorted[1].column THEN <<f>> \o sorted
  ELSE <<sorted[1]>> \o InsertByColumn(Tail(sorted), f)

RECURSIVE SortByColumn(_)
\* the fields in ascending column order (declaration order among equal columns)
SortByColumn(fields) ==
  IF fields = <<>> THEN <<>>
  ELSE InsertByColumn(SortByColumn(SubSeq(fields, 1, Len(fields) - 1)), fields[Len(fields)])

\* the field list of the input with its columns resolved, when every field is well formed
Resolved == parseFields_1(given.fields, <<SP>>, "true")

HasGap(fields) ==
  LET s == SortByColumn(fields)
  IN \E i \in 2..Len(s) : s[i].column > s[i - 1].column + s[i - 1].width

Columns(f) == f.column..(f.column + f.width - 1)

HasOverlap(fields) ==
  \E i, j \in 1..Len(fields) : i # j /\ Columns(fields[i]) \cap Columns(fields[j]) # {}

UniformKeys(fields) ==
  \/ \A i \in 1..Len(fields) : fields[i].keyed
  \/ \A i \in 1..Len(fields) : ~fields[i].keyed

LastColumn(fields) ==
  LET s == SortByColumn(fields) IN s[Len(s)].column + s[Len(s)].width - 1

C3_OverlapsRejected ==
  pc = "parsed" =>
    /\ (Resolved.ok /\ HasOverlap(Resolved.fields)) => ~opts.ok
    /\ opts.ok => ~HasOverlap(opts.fields)

\* the wider field declared second, starting before the first one
C3_Witness ==
  /\ pc = "parsed"
  /\ given.fields = <<Item(1, 2, "left", ""), Item(2, 1, "left", "")>>
  /\ opts = Fail("Some fields are overlapping")

RECURSIVE SumWidths(_, _)
\* the widths of the first n fields added up
SumWidths(items, n) == IF n = 0 THEN 0 ELSE items[n].width + SumWidths(items, n - 1)

\* C4 as stated: a field without an explicit column starts where the field
\* declared before it ends, also when that field had an explicit column.
C4_DefaultAfterPrevious ==
  (pc = "parsed" /\ opts.ok) =>
    \A i \in 1..Len(given.fields) :
      given.fields[i].column = 0 =>
        opts.fields[i].column =
          IF i = 1 THEN 1 ELSE opts.fields[i - 1].column + opts.fields[i - 1].width

\* C4 amended: a field without an explicit column gets 1 + the sum of the widths
\* of all fields declared before it, whatever their columns; for widths 2 and 2
\* with no explicit column that is columns 1 and 3, width 4 and output 'array'.
C4_DefaultSumOfWidths ==
  (pc = "parsed" /\ opts.ok) =>
    /\ \A i \in 1..Len(given.fields) :
         given.fields[i].column = 0 =>
           opts.fields[i].column = 1 + SumWidths(given.fields, i - 1)
    /\ given.fields = <<Item(2, 0, "left", ""), Item(2, 0, "left", "")>> =>
         /\ opts.fields[1].column = 1 /\ opts.fields[2].column = 3
         /\ opts.width = 4 /\ opts.output = "array"

\* a default column after a field with an explicit column: column 3, width 1, then width 1
C4_Witness ==
  /\ pc = "parsed"
  /\ given.fields = <<Item(1, 3, "left", ""), Item(1, 0, "left", "")>>
  /\ opts.ok /\ opts.fields[2].column = 2

-----------------------------------------------------------------------------
(* Properties of the record codec.                                         *)

\* the value is a string that neither starts nor ends with the pad character
NoPadAtEnds(value, pad) ==
  /\ value.t = "string"
  /\ value.s # <<>> => (<<value.s[1]>> # pad /\ <<value.s[Len(value.s)]>> # pad)

\* C5: under an accepted positional layout with default trim, a record of strings
\* that fit their fields and neither start nor end with the field's pad is
\* returned unchanged by parseFields(stringifyFields(record)), for left and right
\* alignment alike.
C5_RoundTrip ==
  LET fits == \A i \in 1..Len(opts.fields) :
                /\ NoPadAtEnds(obj[i], opts.fields[i].pad)
                /\ Len(obj[i].s) <= opts.fields[i].width
  IN /\ (pc = "encoded" /\ fits) => encoded.ok
     /\ (pc = "roundtrip" /\ fits) => (decoded.ok /\ decoded.record = obj)

\* a right-aligned field behind a gap holding a value with the pad inside, after a
\* left-aligned field holding a shorter value
C5_Witness ==
  /\ pc = "roundtrip"
  /\ given.pad = <<>>
  /\ given.fields = <<Item(2, 0, "left", ""), Item(3, 4, "right", "")>>
  /\ obj = <<Str(<<"a">>), Str(<<"a", SP, "a">>)>>
  /\ encoded.text = <<"a", SP, SP, "a", SP, "a">>
  /\ decoded.record = obj

\* the string stringifyField pads: the value after stringifyValue
Coerced(value) == stringifyValue(value, "utf8")

Padded(value, field) ==
  IF field.align = "right" THEN Repeat(field.pad[1], field.width - Len(value)) \o value
  ELSE value \o Repeat(field.pad[1], field.width - Len(value))

C8_LengthPolicy ==
  pc = "decoded" =>
    LET long == Len(lineIn) > opts.width
        short == Len(lineIn) < opts.width
    IN /\ ~decoded.ok <=> \/ long /\ ~opts.allowLongerLines
                          \/ short /\ ~opts.allowShorterLines
       /\ ~decoded.ok => decoded = [ok |-> FALSE, error |-> "UNEXPECTED_LINE_LENGTH",
                                    line |-> 1, value |-> lineIn]
       /\ DefaultLengthFlags(given) => (decoded.ok <=> ~short)
       /\ decoded.ok =>
            \A i \in 1..Len(opts.fields) :
              opts.fields[i].column > Len(lineIn) => decoded.record[i] = Str(<<>>)
       /\ (given.allowShorterLines = "true" /\ given.pad = <<>> /\ lineIn = <<"a", "a">>
             /\ given.fields = <<Item(2, 0, "left", ""), Item(2, 0, "left", "")>>)
            => decoded.record = <<Str(<<"a", "a">>), Str(<<>>)>>

\* two characters against widths 2 and 2 with allowShorterLines
C8_Witness ==
  /\ pc = "decoded"
  /\ given.pad = <<>>
  /\ given.allowShorterLines = "true"
  /\ given.fields = <<Item(2, 0, "left", ""), Item(2, 0, "left", "")>>
  /\ lineIn = <<"a", "a">>
  /\ decoded.ok /\ decoded.record = <<Str(<<"a", "a">>), Str(<<>>)>>

-----------------------------------------------------------------------------
(* Properties of the Parser.                                               *)

RECURSIVE RunWrites(_, _, _, _)
\* write(cs[i]), ..., write(cs[Len(cs)]) then end() on the instance p, every
\* generator run to its end: everything yielded, in order
RunWrites(p, cs, i, yielded) ==
  IF i > Len(cs) THEN yielded \o end(p).yielded
  ELSE LET w == write(p, cs[i])
       IN RunWrites(w.state, cs, i + 1, yielded \o w.yielded)

\* what a freshly constructed parser yields for the chunks cs
Fresh(options, cs) == RunWrites(Parser(parseOptionsBundle(options)), cs, 1, <<>>)

RECURSIVE UpToThrow(_)
\* what the caller receives: the records up to the first failure, and that failure
UpToThrow(yielded) ==
  IF yielded = <<>> THEN <<>>
  ELSE IF ~yielded[1].ok THEN <<yielded[1]>>
  ELSE <<yielded[1]>> \o UpToThrow(Tail(yielded))

\* C1 as stated: the chunks of a session, written one by one to a new parser and
\* closed by end(), yield what one write of their concatenation followed by end()
\* yields on a new parser of the same configuration.
C1_ChunkInvariance ==
  (pc \in {"ended", "failed"} /\ session = 1) =>
    UpToThrow(out) = UpToThrow(Fresh(given, <<Concat(chunks)>>))

\* C9 as stated: with skipEmptyLines no record comes from a zero-length line, and
\* after any sequence of write() calls the line counter is the 1-based position
\* of the next line of the input, zero-length lines counted.
C9_EmptyLinesCounted ==
  (pc = "parser" /\ opts.eol # <<>>) =>
    /\ opts.skipEmptyLines =>
         \A i \in 1..Len(out) : out[i].ok => out[i].record[1].s # <<>>
    /\ (\A i \in 1..Len(out) : out[i].ok) =>
         line = Len(split(Concat(chunks), opts.eol))

\* C10 as stated: when end() has completed the carry is empty, the line counter 1
\* and the total 0, and the session that follows on the same instance yields
\* what a freshly constructed parser yields for the same chunks.
C10_ResetEnablesReuse ==
  pc = "ended" =>
    /\ text = <<>> /\ line = 1 /\ totalLines = 0
    /\ out = Fresh(given, chunks)

\* the lines of a whole input: the pieces between the line breaks, a zero-length
\* piece after the last line break not being a line
InputLines(t, eol) ==
  LET parts == split(t, eol)
  IN IF parts[Len(parts)] = <<>> THEN SubSeq(parts, 1, Len(parts) - 1) ELSE parts

\* the first and the last position of the range, for an input of n lines
RangeLo(options, n) == IF options.from > 0 THEN options.from ELSE n + 1 + options.from
RangeHi(options, n) == IF options.to > 0 THEN options.to ELSE n + 1 + options.to

RECURSIVE InRangeRecords(_, _, _)
\* the records of the lines ls[n], n >= i, whose position is in the range, the
\* zero-length lines left out under skipEmptyLines
InRangeRecords(ls, i, options) ==
  IF i > Len(ls) THEN <<>>
  ELSE (IF /\ RangeLo(options, Len(ls)) <= i
           /\ i <= RangeHi(options, Len(ls))
           /\ (ls[i] # <<>> \/ ~options.skipEmptyLines)
        THEN <<parseFields(ls[i], options, i).record>>
        ELSE <<>>) \o InRangeRecords(ls, i + 1, options)

\* one write() of the whole input followed by end(), on a new instance
WholeInput == pc = "ended" /\ session = 1 /\ Len(chunks) = 1

\* C11 as stated: when the whole input of N lines is written in one write() and
\* closed by end(), the records yielded are those of the lines whose 1-based
\* position n has lo <= n <= hi, lo = from if from > 0 else N + 1 + from,
\* hi = to if to > 0 else N + 1 + to, zero-length lines left out under
\* skipEmptyLines.
C11_WholeInputRangeExact ==
  WholeInput =>
    RecordsOf(out) = InRangeRecords(InputLines(chunks[1], opts.eol), 1, opts)

\* the number of lines seen since the session started: the complete lines of all
\* the write() calls so far, plus one for a non-empty carry
LinesSeen == Len(InputLines(Concat(chunks), opts.eol))

\* after each write() the total is the number of lines seen in the session
TotalIsRunning ==
  (pc = "parser" /\ chunks # <<>> /\ opts.eol # <<>>) => totalLines = LinesSeen

\* a step of end() with a carry yields the carry iff the line counter is inside
\* the range resolved with the line count of the entire stream
EndUsesStreamCount ==
  (pc = "parser" /\ pc' # "parser" /\ text # <<>> /\ opts.eol # <<>>) =>
    ((out' # out) <=> ~outOfRange(opts, line, LinesSeen))

\* C12 as stated: after each write() totalLines is the number of lines seen since
\* the session started, and end() resolves negative from / to bounds with the
\* line count of the entire stream, for any number of write() calls.
C12_TotalIsStreamCount == []TotalIsRunning /\ [][EndUsesStreamCount]_vars

-----------------------------------------------------------------------------
(* Properties of parse() followed by stringify().                          *)

\* the text handed to parse()
InputText == JoinLines(input.lines, input.eol)

\* every column outside the fields holds the layout's default pad in every line
GapsPadded ==
  \A i \in 1..Len(input.lines) :
    \A c \in (1..opts.width) \ FieldColumns(opts) : <<input.lines[i][c]>> = opts.pad

DistinctKeys ==
  \A i, j \in 1..Len(opts.fields) :
    i # j => opts.fields[i].property # opts.fields[j].property

\* C6 as stated: under a keyed layout with default options, a text of lines of
\* exactly totalWidth characters, each followed by the terminator, with no pad in
\* the field slices, is parsed without failure and stringified back to itself.
C6_TextRoundTrip ==
  /\ pc = "parsed" => records.ok
  /\ pc = "stringified" => output = [ok |-> TRUE, error |-> "", text |-> InputText]

\* C6 amended: the same, for layouts whose fields have pairwise distinct keys and
\* texts whose columns outside every field hold the layout's default pad.
C6_TextRoundTripCovered ==
  /\ pc = "parsed" => records.ok
  /\ (pc = "stringified" /\ DistinctKeys /\ GapsPadded) =>
       output = [ok |-> TRUE, error |-> "", text |-> InputText]

\* two lines of four letters under fields a and b of width 2, eol detected
C6_Witness ==
  /\ pc = "stringified"
  /\ given.fields = <<Item(2, 0, "left", "a"), Item(2, 0, "left", "b")>>
  /\ input = [lines |-> << <<"a", "b", "b", "a">>, <<"b", "a", "a", "b">> >>,
              eol |-> <<LF>>, configured |-> FALSE]
  /\ records.records = << [a |-> Str(<<"a", "b">>), b |-> Str(<<"b", "a">>)],
                          [a |-> Str(<<"b", "a">>), b |-> Str(<<"a", "b">>)] >>
  /\ output.text = <<"a", "b", "b", "a", LF, "b", "a", "a", "b", LF>>

-----------------------------------------------------------------------------
(* One Stringifier instance driven through sessions of write() calls       *)
(* closed by end().  chunks holds the objects written in the session, out  *)
(* what each write() returned or that it threw, output what end() returned.*)

\* the Stringifier's configurations: one field of width 2, eol and eof given or not
StringifierOptions ==
  {[Options(<<Item(2, 0, "left", "")>>) EXCEPT !.eol = e, !.eof = f] :
     e \in {<<>>, <<CR, LF>>}, f \in {"undefined", "false"}}

\* the objects written: a value that fits, one that fills the field, one that
\* overflows it and one that is not coerced to a string
StringifierObjects ==
  {<<v>> : v \in {Str(<<"a">>), Str(<<"a", "a">>), Str(<<"a", "a", "a">>), Obj}}

\* the Stringifier instance of the state
ThisStringifier == [options |-> opts, line |-> line]

InitStringifier ==
  /\ given \in StringifierOptions
  /\ opts = Stringifier(given).options
  /\ pc = "stringifier"
  /\ obj = <<>> /\ encoded = None /\ lineIn = <<>> /\ decoded = None
  /\ text = <<>> /\ line = Stringifier(given).line /\ totalLines = 0
  /\ chunks = <<>> /\ out = <<>> /\ session = 1
  /\ input = NoInput /\ records = None /\ output = None

\* stringifier.write(o) in the running session; the caller catches what it throws
WriteObject ==
  /\ pc = "stringifier"
  /\ Len(chunks) < MaxWrites
  /\ \E o \in StringifierObjects :
       LET w == StringifierWrite(ThisStringifier, o)
       IN /\ opts' = w.state.options
          /\ line' = w.state.line
          /\ chunks' = Append(chunks, o)
          /\ out' = Append(out, [ok |-> w.ok, text |-> w.text])
  /\ UNCHANGED <<pc, given, obj, encoded, lineIn, decoded, text, totalLines,
                 session, input, records, output>>

\* stringifier.end()
EndObjects ==
  /\ pc = "stringifier"
  /\ LET e == StringifierEnd(ThisStringifier)
     IN /\ opts' = e.state.options
        /\ line' = e.state.line
        /\ output' = [ok |-> TRUE, error |-> "", text |-> e.text]
  /\ pc' = "flushed"
  /\ UNCHANGED <<given, obj, encoded, lineIn, decoded, text, totalLines,
                 chunks, out, session, input, records>>

\* the caller turns to the next stream with the same instance
NextObjects ==
  /\ pc = "flushed"
  /\ session < MaxSessions
  /\ session' = session + 1
  /\ chunks' = <<>>
  /\ out' = <<>>
  /\ output' = None
  /\ pc' = "stringifier"
  /\ UNCHANGED <<given, opts, obj, encoded, lineIn, decoded, text, line, totalLines,
                 input, records>>

NextStringifier == WriteObject \/ EndObjects \/ NextObjects

SpecStringifier == InitStringifier /\ [][NextStringifier]_vars

-----------------------------------------------------------------------------
(* Properties of the Stringifier.                                          *)

RECURSIVE ReturnedTexts(_)
\* the concatenation of the texts the write() calls returned
ReturnedTexts(rs) == IF rs = <<>> THEN <<>> ELSE rs[1].text \o ReturnedTexts(Tail(rs))

RECURSIVE EncodedLines(_)
\* the encoded lines of the write() calls of the session that did not throw
EncodedLines(i) ==
  IF i > Len(chunks) THEN <<>>
  ELSE (IF out[i].ok THEN <<stringifyFields(chunks[i], opts, i).text>> ELSE <<>>)
         \o EncodedLines(i + 1)

RECURSIVE Terminated(_, _)
\* every line followed by eol
Terminated(ls, eol) == IF ls = <<>> THEN <<>> ELSE ls[1] \o eol \o Terminated(Tail(ls), eol)

RECURSIVE Joined(_, _)
\* the lines with eol between them
Joined(ls, eol) ==
  IF ls = <<>> THEN <<>>
  ELSE IF Len(ls) = 1 THEN ls[1]
  ELSE ls[1] \o eol \o Joined(Tail(ls), eol)

\* C13 as stated: the texts returned by the write() calls of a session, a call
\* that throws contributing none, concatenate to every encoded line followed by
\* eol when eof is enabled, and to the encoded lines joined by eol, with no
\* separator before the first and none after the last, when eof is disabled;
\* end() returns '' and sets the line counter to 1.
C13_SeparatorPolicy ==
  /\ pc \in {"stringifier", "flushed"} =>
       ReturnedTexts(out) = IF opts.eof THEN Terminated(EncodedLines(1), opts.eol)
                            ELSE Joined(EncodedLines(1), opts.eol)
  /\ pc = "flushed" => (output.text = <<>> /\ line = 1)

====
